---- MODULE Spec2Model ----
(***************************************************************************)
(* The PostOffice of turtle_sent.py (messages are dicts) and of            *)
(* turtle_sent_two.py (messages are Message objects), driven side by side  *)
(* by the same calls.  The variables message_id, read, boxes are the       *)
(* attributes of the first PostOffice; message_id_two and boxes_two those  *)
(* of the second.  last describes the most recent call (its arguments, its *)
(* outcome, what each implementation returned), prev the successful        *)
(* read_inbox or search_inbox call on the same user that came right before *)
(* it, returned / returned_two list the ids the successful send_message    *)
(* calls have returned so far, in call order, and urgent_sent lists the    *)
(* ids of those that were sent with urgent = True.  Spec makes the calls   *)
(* and keeps neither prev nor urgent_sent; SpecCalls makes the same calls  *)
(* and keeps prev, SpecUrgent makes them and keeps urgent_sent.            *)
(* SpecThreads runs send_message and read_inbox statement by statement in  *)
(* threads that share the post offices; threads holds where each thread    *)
(* stands in its call and the locals of that call.                         *)
(***************************************************************************)
EXTENDS Integers, Sequences, FiniteSets, TLC

VARIABLES message_id, read, boxes,
          message_id_two, boxes_two,
          last, prev, returned, returned_two, urgent_sent, threads

vars == <<message_id, read, boxes, message_id_two, boxes_two,
          last, prev, returned, returned_two, urgent_sent, threads>>

(***************************************************************************)
(* Bounds and input domains.                                               *)
(***************************************************************************)
MaxSends == 3

MaxUsers == 2

\* The usernames the post offices are built from, and the users the calls
\* address.
Names == {"a", "b"}

\* The letters that get sent: who signs them, what they say and whether they
\* are urgent.  "z" is no username of any post office built here; a username
\* of Names is unknown to the post offices built without it.
Letters == {[sender |-> "a", message_body |-> "ab", urgent |-> FALSE],
            [sender |-> "z", message_body |-> "a", urgent |-> FALSE],
            [sender |-> "a", message_body |-> "ab", urgent |-> TRUE]}

Parts == {"", "b", "ba"}

Limits == {-1, 0, 1, 2}

UsernameLists == UNION {[1..n -> Names] : n \in 0..MaxUsers}

\* The threads that call the post offices in SpecThreads, how many messages
\* they send between them, what they send and how many messages they ask for.
Threads == {"t1", "t2"}

MaxThreadSends == 2

ThreadLetters == {letter \in Letters : letter.sender \in Names}

ThreadLimits == {0, 1}

(***************************************************************************)
(* Python list and str primitives used by the code.                        *)
(***************************************************************************)
Range(s) == {s[i] : i \in 1..Len(s)}

Min(a, b) == IF a < b THEN a ELSE b

\* list[0:n] for n > 0.
Slice0(s, n) == SubSeq(s, 1, Min(n, Len(s)))

\* list.insert(0, x)
Insert0(s, x) == <<x>> \o s

\* str.__contains__: part occurs in body as a contiguous substring.
Contains(body, part) ==
    \E i \in 0..(Len(body) - Len(part)) :
        \A j \in 1..Len(part) : SubSeq(body, i + j, i + j) = SubSeq(part, j, j)

\* str(bool)
PyStrBool(b) == IF b THEN "True" ELSE "False"

\* The references a list comprehension over a mailbox keeps: the positions
\* in keep, in increasing order (a comprehension walks the list front to back).
RECURSIVE Positions(_, _, _)
Positions(keep, i, n) ==
    IF i > n THEN <<>>
    ELSE IF i \in keep THEN <<i>> \o Positions(keep, i + 1, n)
         ELSE Positions(keep, i + 1, n)

\* The objects a list of references points at.
Deref(box, refs) == [k \in 1..Len(refs) |-> box[refs[k]]]

(***************************************************************************)
(* turtle_sent.py: PostOffice with dict messages.                          *)
(***************************************************************************)
\* A constructor that refuses a username list with a repeated name.
PostOffice_init_rejecting(usernames) ==
    IF \E i, j \in 1..Len(usernames) : i # j /\ usernames[i] = usernames[j]
    THEN [outcome |-> "ConfigError", message_id |-> 0, read |-> FALSE, boxes |-> <<>>]
    ELSE [outcome    |-> "ok",
          message_id |-> 0,
          read       |-> FALSE,
          boxes      |-> [user \in Range(usernames) |-> <<>>]]

\* __init__: one empty list per key of the dict comprehension; a repeated
\* username overwrites its own key.  Nothing is raised.
PostOffice_init(usernames) ==
    [outcome    |-> "ok",
     message_id |-> 0,
     read       |-> FALSE,
     boxes      |-> [user \in Range(usernames) |-> <<>>]]

\* A counter that is read but never stored back past the first message.
next_message_id_stuck(mid) == IF mid = 0 THEN 1 ELSE mid

\* self.message_id = self.message_id + 1
next_message_id(mid) == mid + 1

\* A dict literal that files the message as read already.
message_details_already_read(mid, message_body, sender, rd) ==
    [id |-> mid, body |-> message_body, sender |-> sender, read |-> TRUE]

\* the dict literal of send_message
message_details(mid, message_body, sender, rd) ==
    [id |-> mid, body |-> message_body, sender |-> sender, read |-> rd]

\* Delivery that appends whatever the urgency.
deliver_at_back(user_box, details, urgent) == Append(user_box, details)

\* if urgent: user_box.insert(0, ...) else: user_box.append(...)
deliver(user_box, details, urgent) ==
    IF urgent THEN Insert0(user_box, details) ELSE Append(user_box, details)

\* send_message with the counter incremented before the recipient is looked up.
send_message_count_first(mid, rd, bxs, sender, recipient, message_body, urgent) ==
    LET new_id  == next_message_id(mid)
        details == message_details(new_id, message_body, sender, rd)
    IN  IF recipient \notin DOMAIN bxs
        THEN [outcome |-> "KeyError", message_id |-> new_id, boxes |-> bxs, result |-> 0]
        ELSE [outcome    |-> "ok",
              message_id |-> new_id,
              boxes      |-> [bxs EXCEPT ![recipient] = deliver(@, details, urgent)],
              result     |-> new_id]

\* send_message looking the sender up as well as the recipient.
send_message_sender_checked(mid, rd, bxs, sender, recipient, message_body, urgent) ==
    IF recipient \notin DOMAIN bxs \/ sender \notin DOMAIN bxs
    THEN [outcome |-> "KeyError", message_id |-> mid, boxes |-> bxs, result |-> 0]
    ELSE LET new_id  == next_message_id(mid)
             details == message_details(new_id, message_body, sender, rd)
         IN  [outcome    |-> "ok",
              message_id |-> new_id,
              boxes      |-> [bxs EXCEPT ![recipient] = deliver(@, details, urgent)],
              result     |-> new_id]

send_message(mid, rd, bxs, sender, recipient, message_body, urgent) ==
    IF recipient \notin DOMAIN bxs
    THEN [outcome |-> "KeyError", message_id |-> mid, boxes |-> bxs, result |-> 0]
    ELSE LET new_id  == next_message_id(mid)
             details == message_details(new_id, message_body, sender, rd)
         IN  [outcome    |-> "ok",
              message_id |-> new_id,
              boxes      |-> [bxs EXCEPT ![recipient] = deliver(@, details, urgent)],
              result     |-> new_id]

\* The comprehension without its filter.
unread_everything(box) == Positions(1..Len(box), 1, Len(box))

\* [message for message in self.boxes[user] if message['read'] is False]
unread(box) == Positions({i \in 1..Len(box) : box[i].read = FALSE}, 1, Len(box))

\* message_read[0:number_of_message] if number_of_message > 0 else message_read
truncate(message_read, number_of_message) ==
    IF number_of_message > 0 THEN Slice0(message_read, number_of_message)
    ELSE message_read

\* The loops marking the whole mailbox as soon as anything was selected.
set_read_by_id_whole_box(box, message_read) ==
    [i \in 1..Len(box) |->
        IF message_read # <<>> THEN [box[i] EXCEPT !.read = TRUE] ELSE box[i]]

\* The two nested loops: every position whose id equals the id of a selected
\* message gets read = True.
set_read_by_id(box, message_read) ==
    [i \in 1..Len(box) |->
        IF \E k \in 1..Len(message_read) : box[i].id = box[message_read[k]].id
        THEN [box[i] EXCEPT !.read = TRUE]
        ELSE box[i]]

\* read_inbox taking the messages it returns out of the mailbox.
read_inbox_removing(bxs, user, number_of_message) ==
    IF user \notin DOMAIN bxs
    THEN [outcome |-> "KeyError", boxes |-> bxs, result |-> <<>>]
    ELSE LET message_read == truncate(unread(bxs[user]), number_of_message)
             box          == set_read_by_id(bxs[user], message_read)
             kept         == Positions((1..Len(box)) \ Range(message_read), 1, Len(box))
         IN  [outcome |-> "ok",
              boxes   |-> [bxs EXCEPT ![user] = Deref(box, kept)],
              result  |-> Deref(box, message_read)]

\* The returned list holds the very dicts of the mailbox, so it shows them
\* as they are when the call returns.
read_inbox(bxs, user, number_of_message) ==
    IF user \notin DOMAIN bxs
    THEN [outcome |-> "KeyError", boxes |-> bxs, result |-> <<>>]
    ELSE LET message_read == truncate(unread(bxs[user]), number_of_message)
             box          == set_read_by_id(bxs[user], message_read)
         IN  [outcome |-> "ok",
              boxes   |-> [bxs EXCEPT ![user] = box],
              result  |-> Deref(box, message_read)]

\* A search that looks at unread messages only.
matching_unread_only(box, part_message) ==
    Positions({i \in 1..Len(box) :
                  ~box[i].read /\ Contains(box[i].body, part_message)}, 1, Len(box))

\* [message for message in self.boxes[user] if str(body).__contains__(part)]
matching(box, part_message) ==
    Positions({i \in 1..Len(box) : Contains(box[i].body, part_message)}, 1, Len(box))

\* A search that marks what it finds as read, the way read_inbox does.
search_inbox_marking(bxs, user, part_message) ==
    IF user \notin DOMAIN bxs
    THEN [outcome |-> "KeyError", boxes |-> bxs, result |-> <<>>]
    ELSE LET found == matching(bxs[user], part_message)
             box   == set_read_by_id(bxs[user], found)
         IN  [outcome |-> "ok",
              boxes   |-> [bxs EXCEPT ![user] = box],
              result  |-> Deref(box, found)]

search_inbox(bxs, user, part_message) ==
    IF user \notin DOMAIN bxs
    THEN [outcome |-> "KeyError", boxes |-> bxs, result |-> <<>>]
    ELSE [outcome |-> "ok",
          boxes   |-> bxs,
          result  |-> Deref(bxs[user], matching(bxs[user], part_message))]

(***************************************************************************)
(* turtle_sent_two.py: Message objects and the PostOffice that holds them. *)
(***************************************************************************)
\* Message.__init__
Message(m_id, body, sender) ==
    [message_id     |-> m_id,
     message_body   |-> body,
     message_sender |-> sender,
     message_read   |-> FALSE]

\* Message.get_details: a set literal holding one formatted string.
get_details(message) ==
    {"Id: " \o ToString(message.message_id) \o ", Body: " \o message.message_body
        \o ", Sender: " \o message.message_sender
        \o ", Read: " \o PyStrBool(message.message_read)}

\* Message.set_read
set_read(message, status_read) == [message EXCEPT !.message_read = status_read]

PostOffice_init_two(usernames) ==
    [outcome    |-> "ok",
     message_id |-> 0,
     boxes      |-> [user \in Range(usernames) |-> <<>>]]

\* A counter that starts over after two messages.
next_message_id_two_wrapping(mid) == (mid % 2) + 1

\* message_id = self.message_id + 1
next_message_id_two(mid) == mid + 1

\* Delivery that puts every message in front, urgent or not.
deliver_two_always_in_front(user_box, details, urgent) == Insert0(user_box, details)

\* if urgent: user_box.insert(0, ...) else: user_box.append(...)
deliver_two(user_box, details, urgent) ==
    IF urgent THEN Insert0(user_box, details) ELSE Append(user_box, details)

\* send_message opening a mailbox for a recipient it does not know.
send_message_two_setdefault(mid, bxs, sender, recipient, message_body, urgent) ==
    LET new_id  == next_message_id_two(mid)
        details == Message(new_id, message_body, sender)
        known   == [user \in DOMAIN bxs \cup {recipient} |->
                       IF user \in DOMAIN bxs THEN bxs[user] ELSE <<>>]
    IN  [outcome    |-> "ok",
         message_id |-> new_id,
         boxes      |-> [known EXCEPT ![recipient] = deliver_two(@, details, urgent)],
         result     |-> details.message_id]

\* send_message on mailboxes that are all one and the same list.
send_message_two_shared_list(mid, bxs, sender, recipient, message_body, urgent) ==
    IF recipient \notin DOMAIN bxs
    THEN [outcome |-> "KeyError", message_id |-> mid, boxes |-> bxs, result |-> 0]
    ELSE LET new_id  == next_message_id_two(mid)
             details == Message(new_id, message_body, sender)
         IN  [outcome    |-> "ok",
              message_id |-> new_id,
              boxes      |-> [user \in DOMAIN bxs |->
                                 deliver_two(bxs[user], details, urgent)],
              result     |-> details.message_id]

send_message_two(mid, bxs, sender, recipient, message_body, urgent) ==
    IF recipient \notin DOMAIN bxs
    THEN [outcome |-> "KeyError", message_id |-> mid, boxes |-> bxs, result |-> 0]
    ELSE LET new_id  == next_message_id_two(mid)
             details == Message(new_id, message_body, sender)
         IN  [outcome    |-> "ok",
              message_id |-> new_id,
              boxes      |-> [bxs EXCEPT ![recipient] = deliver_two(@, details, urgent)],
              result     |-> details.message_id]

\* [message for message in self.boxes[user] if message.message_read is False]
unread_two(box) ==
    Positions({i \in 1..Len(box) : box[i].message_read = FALSE}, 1, Len(box))

truncate_two(message_read, number_of_message) ==
    IF number_of_message > 0 THEN Slice0(message_read, number_of_message)
    ELSE message_read

\* The loop leaving after its first message.
set_read_first_only(box, message_read) ==
    [i \in 1..Len(box) |->
        IF message_read # <<>> /\ i = message_read[1] THEN set_read(box[i], TRUE)
        ELSE box[i]]

\* for message in message_read: message.set_read(True)
set_read_all(box, message_read) ==
    [i \in 1..Len(box) |->
        IF i \in Range(message_read) THEN set_read(box[i], TRUE) ELSE box[i]]

\* [message.get_details() for message in message_read], taken after the loop.
details_of(messages) == [k \in 1..Len(messages) |-> get_details(messages[k])]

\* read_inbox building the details before the loop that marks the messages.
read_inbox_two_details_first(bxs, user, number_of_message) ==
    IF user \notin DOMAIN bxs
    THEN [outcome |-> "KeyError", boxes |-> bxs, result |-> <<>>]
    ELSE LET message_read == truncate_two(unread_two(bxs[user]), number_of_message)
             box          == set_read_all(bxs[user], message_read)
         IN  [outcome |-> "ok",
              boxes   |-> [bxs EXCEPT ![user] = box],
              result  |-> details_of(Deref(bxs[user], message_read))]

read_inbox_two(bxs, user, number_of_message) ==
    IF user \notin DOMAIN bxs
    THEN [outcome |-> "KeyError", boxes |-> bxs, result |-> <<>>]
    ELSE LET message_read == truncate_two(unread_two(bxs[user]), number_of_message)
             box          == set_read_all(bxs[user], message_read)
         IN  [outcome |-> "ok",
              boxes   |-> [bxs EXCEPT ![user] = box],
              result  |-> details_of(Deref(box, message_read))]

\* A search that wants the body to begin with the text.
matching_two_startswith(box, part_message) ==
    Positions({i \in 1..Len(box) :
                  /\ Len(part_message) <= Len(box[i].message_body)
                  /\ SubSeq(box[i].message_body, 1, Len(part_message)) = part_message},
              1, Len(box))

\* [... for message in self.boxes[user] if part_message in message.message_body]
matching_two(box, part_message) ==
    Positions({i \in 1..Len(box) : Contains(box[i].message_body, part_message)},
              1, Len(box))

search_inbox_two(bxs, user, part_message) ==
    IF user \notin DOMAIN bxs
    THEN [outcome |-> "KeyError", boxes |-> bxs, result |-> <<>>]
    ELSE [outcome |-> "ok",
          boxes   |-> bxs,
          result  |-> details_of(Deref(bxs[user], matching_two(bxs[user], part_message)))]

(***************************************************************************)
(* The state machine: both post offices are constructed from the same      *)
(* username list and then receive the same calls.                          *)
(***************************************************************************)
NoCall == [op |-> "none"]

\* A thread that is in no call.
Idle == [pc |-> "idle"]

\* What last keeps of a call: everything when it succeeded, and only the
\* operation and the offending username when it raised.
Record(call) ==
    IF call.outcome = "ok" /\ call.outcome_two = "ok" THEN call
    ELSE [op |-> call.op, user |-> call.user,
          outcome |-> call.outcome, outcome_two |-> call.outcome_two]

\* The limits of the consecutive read_inbox calls prev keeps: everything, and
\* one message as show_example reads twice in a row.
Remembered == {0, 1}

\* What prev keeps when the call now replaces the call before as the last
\* one: the call before, when both are successful read_inbox calls on the
\* same user with limits in Remembered, or successful search_inbox calls with
\* the same arguments.
Remember(before, now) ==
    IF /\ now.op \in {"read_inbox", "search_inbox"}
       /\ before.op = now.op
       /\ before.user = now.user
       /\ before.outcome = "ok" /\ before.outcome_two = "ok"
       /\ now.outcome = "ok" /\ now.outcome_two = "ok"
       /\ (now.op = "read_inbox" =>
              {before.number_of_message, now.number_of_message} \subseteq Remembered)
       /\ (now.op = "search_inbox" => before.part_message = now.part_message)
    THEN before ELSE NoCall

Init ==
    \E usernames \in UsernameLists :
        LET po     == PostOffice_init(usernames)
            po_two == PostOffice_init_two(usernames)
        IN  /\ message_id = po.message_id
            /\ read = po.read
            /\ boxes = po.boxes
            /\ message_id_two = po_two.message_id
            /\ boxes_two = po_two.boxes
            /\ last = [op |-> "__init__", user |-> "", usernames |-> usernames,
                       outcome |-> po.outcome, outcome_two |-> po_two.outcome]
            /\ prev = NoCall
            /\ returned = <<>>
            /\ returned_two = <<>>
            /\ urgent_sent = <<>>
            /\ threads = [t \in Threads |-> Idle]

SendMessage(sender, recipient, message_body, urgent) ==
    LET r     == send_message(message_id, read, boxes, sender, recipient, message_body, urgent)
        r_two == send_message_two(message_id_two, boxes_two, sender, recipient,
                                  message_body, urgent)
    IN  /\ r.message_id <= MaxSends
        /\ r_two.message_id <= MaxSends
        /\ message_id' = r.message_id
        /\ boxes' = r.boxes
        /\ message_id_two' = r_two.message_id
        /\ boxes_two' = r_two.boxes
        /\ last' = Record([op |-> "send_message", sender |-> sender, user |-> recipient,
                           message_body |-> message_body, urgent |-> urgent,
                           outcome |-> r.outcome, outcome_two |-> r_two.outcome,
                           result |-> r.result, result_two |-> r_two.result])
        /\ returned' = IF r.outcome = "ok" THEN Append(returned, r.result) ELSE returned
        /\ returned_two' = IF r_two.outcome = "ok" THEN Append(returned_two, r_two.result)
                           ELSE returned_two
        /\ UNCHANGED read

ReadInbox(user, number_of_message) ==
    LET r     == read_inbox(boxes, user, number_of_message)
        r_two == read_inbox_two(boxes_two, user, number_of_message)
    IN  /\ boxes' = r.boxes
        /\ boxes_two' = r_two.boxes
        /\ last' = Record([op |-> "read_inbox", user |-> user,
                           number_of_message |-> number_of_message,
                           outcome |-> r.outcome, outcome_two |-> r_two.outcome,
                           result |-> r.result, result_two |-> r_two.result])
        /\ UNCHANGED <<message_id, read, message_id_two, returned, returned_two>>

SearchInbox(user, part_message) ==
    LET r     == search_inbox(boxes, user, part_message)
        r_two == search_inbox_two(boxes_two, user, part_message)
    IN  /\ boxes' = r.boxes
        /\ boxes_two' = r_two.boxes
        /\ last' = Record([op |-> "search_inbox", user |-> user,
                           part_message |-> part_message,
                           outcome |-> r.outcome, outcome_two |-> r_two.outcome,
                           result |-> r.result, result_two |-> r_two.result])
        /\ UNCHANGED <<message_id, read, message_id_two, returned, returned_two>>

\* No history beyond the last call, as Spec runs the post offices.
TrackNothing == UNCHANGED <<prev, urgent_sent, threads>>

\* The history of consecutive calls (prev), kept by SpecCalls.
TrackCalls == prev' = Remember(last, last') /\ UNCHANGED <<urgent_sent, threads>>

\* The history of urgent sends (urgent_sent), kept by SpecUrgent.
TrackUrgent ==
    /\ urgent_sent' = IF last'.op = "send_message" /\ last'.outcome = "ok" /\ last'.urgent
                      THEN Append(urgent_sent, last'.result)
                      ELSE urgent_sent
    /\ UNCHANGED <<prev, threads>>

Send ==
    \E letter \in Letters, recipient \in Names :
        /\ SendMessage(letter.sender, recipient, letter.message_body, letter.urgent)
        /\ TrackNothing

Read ==
    \E user \in Names, number_of_message \in Limits :
        ReadInbox(user, number_of_message) /\ TrackNothing

Search ==
    \E user \in Names, part_message \in Parts :
        SearchInbox(user, part_message) /\ TrackNothing

Next == Send \/ Read \/ Search

Spec == Init /\ [][Next]_vars

SendC ==
    \E letter \in Letters, recipient \in Names :
        /\ SendMessage(letter.sender, recipient, letter.message_body, letter.urgent)
        /\ TrackCalls

ReadC ==
    \E user \in Names, number_of_message \in Limits :
        ReadInbox(user, number_of_message) /\ TrackCalls

SearchC ==
    \E user \in Names, part_message \in Parts :
        SearchInbox(user, part_message) /\ TrackCalls

NextCalls == SendC \/ ReadC \/ SearchC

SpecCalls == Init /\ [][NextCalls]_vars

SendU ==
    \E letter \in Letters, recipient \in Names :
        /\ SendMessage(letter.sender, recipient, letter.message_body, letter.urgent)
        /\ TrackUrgent

ReadU ==
    \E user \in Names, number_of_message \in Limits :
        ReadInbox(user, number_of_message) /\ TrackUrgent

SearchU ==
    \E user \in Names, part_message \in Parts :
        SearchInbox(user, part_message) /\ TrackUrgent

NextUrgent == SendU \/ ReadU \/ SearchU

SpecUrgent == Init /\ [][NextUrgent]_vars

(***************************************************************************)
(* Threads.  Each thread runs one call at a time, a statement per step;    *)
(* the statements of the two implementations are taken side by side.  The  *)
(* lookup self.boxes[...] is part of the first step of a call: the keys of *)
(* a post office never change, and a KeyError ends the call at once.       *)
(* A list of messages held by a thread is a list of references into the    *)
(* mailbox, kept as positions.                                             *)
(***************************************************************************)
\* The sends that have taken an id or are about to.
Started == message_id + Cardinality({t \in Threads : threads[t].pc = "increment"})

\* The loops of read_inbox of turtle_sent.py: for every message selected they
\* visit the positions below len_message, the length the mailbox had when the
\* call began, and mark the messages there that carry the id of the message.
set_read_by_id_upto(box, message_read, len_message) ==
    [i \in 1..Len(box) |->
        IF /\ i <= len_message
           /\ \E k \in 1..Len(message_read) : box[i].id = box[message_read[k]].id
        THEN [box[i] EXCEPT !.read = TRUE]
        ELSE box[i]]

\* list.insert(0, x) moves every message one place back, and the references
\* to them with it.
Moved(refs) == [k \in 1..Len(refs) |-> refs[k] + 1]

\* The thread holds a list of messages of this user's mailbox.
Holding(t, user) ==
    /\ threads[t].pc \in {"mark", "return"}
    /\ threads[t].op = "read_inbox"
    /\ threads[t].user = user

\* user_box = self.boxes[recipient]
BeginSend(t, sender, recipient, message_body, urgent) ==
    /\ threads[t].pc = "idle"
    /\ Started < MaxThreadSends
    /\ threads' = [threads EXCEPT ![t] =
          IF recipient \in DOMAIN boxes /\ recipient \in DOMAIN boxes_two
          THEN [pc |-> "increment", op |-> "send_message", user |-> recipient,
                sender |-> sender, message_body |-> message_body, urgent |-> urgent]
          ELSE Idle]
    /\ UNCHANGED <<message_id, read, boxes, message_id_two, boxes_two,
                   last, prev, returned, returned_two, urgent_sent>>

\* self.message_id = self.message_id + 1
IncrementId(t) ==
    /\ threads[t].pc = "increment"
    /\ message_id' = next_message_id(message_id)
    /\ message_id_two' = next_message_id_two(message_id_two)
    /\ threads' = [threads EXCEPT ![t].pc = "build"]
    /\ UNCHANGED <<read, boxes, boxes_two, last, prev, returned, returned_two, urgent_sent>>

\* message_details = {'id': self.message_id, ...} and
\* message_details = Message(self.message_id, message_body, sender)
BuildDetails(t) ==
    /\ threads[t].pc = "build"
    /\ LET call == threads[t]
       IN  threads' = [threads EXCEPT ![t] =
              [pc |-> "insert", op |-> call.op, user |-> call.user, urgent |-> call.urgent,
               details     |-> message_details(message_id, call.message_body,
                                               call.sender, read),
               details_two |-> Message(message_id_two, call.message_body, call.sender)]]
    /\ UNCHANGED <<message_id, read, boxes, message_id_two, boxes_two,
                   last, prev, returned, returned_two, urgent_sent>>

\* if urgent: user_box.insert(0, message_details)
\* else: user_box.append(message_details)
InsertDetails(t) ==
    /\ threads[t].pc = "insert"
    /\ LET call == threads[t]
       IN  /\ boxes' = [boxes EXCEPT ![call.user] = deliver(@, call.details, call.urgent)]
           /\ boxes_two' = [boxes_two EXCEPT ![call.user] =
                                deliver_two(@, call.details_two, call.urgent)]
           /\ threads' = [other \in Threads |->
                  IF other = t THEN [call EXCEPT !.pc = "return"]
                  ELSE IF call.urgent /\ Holding(other, call.user)
                       THEN [threads[other] EXCEPT !.message_read = Moved(@),
                                                   !.message_read_two = Moved(@)]
                       ELSE threads[other]]
    /\ UNCHANGED <<message_id, read, message_id_two,
                   last, prev, returned, returned_two, urgent_sent>>

\* return self.message_id and return message_details.message_id
ReturnId(t) ==
    /\ threads[t].pc = "return"
    /\ threads[t].op = "send_message"
    /\ returned' = Append(returned, message_id)
    /\ returned_two' = Append(returned_two, threads[t].details_two.message_id)
    /\ threads' = [threads EXCEPT ![t] = Idle]
    /\ UNCHANGED <<message_id, read, boxes, message_id_two, boxes_two,
                   last, prev, urgent_sent>>

\* len_message = len(self.boxes[user])
BeginRead(t, user, number_of_message) ==
    /\ threads[t].pc = "idle"
    /\ threads' = [threads EXCEPT ![t] =
          IF user \in DOMAIN boxes /\ user \in DOMAIN boxes_two
          THEN [pc |-> "select", op |-> "read_inbox", user |-> user,
                number_of_message |-> number_of_message,
                len_message |-> Len(boxes[user])]
          ELSE Idle]
    /\ UNCHANGED <<message_id, read, boxes, message_id_two, boxes_two,
                   last, prev, returned, returned_two, urgent_sent>>

\* message_read = [message for message in self.boxes[user] if ...]
\* message_read = message_read[0:number_of_message] if ... else message_read
SelectUnread(t) ==
    /\ threads[t].pc = "select"
    /\ LET call == threads[t]
       IN  threads' = [threads EXCEPT ![t] =
              [pc |-> "mark", op |-> call.op, user |-> call.user,
               number_of_message |-> call.number_of_message,
               len_message |-> call.len_message,
               message_read |-> truncate(unread(boxes[call.user]),
                                         call.number_of_message),
               message_read_two |-> truncate_two(unread_two(boxes_two[call.user]),
                                                 call.number_of_message)]]
    /\ UNCHANGED <<message_id, read, boxes, message_id_two, boxes_two,
                   last, prev, returned, returned_two, urgent_sent>>

\* the loops that mark the selected messages as read
MarkRead(t) ==
    /\ threads[t].pc = "mark"
    /\ LET call == threads[t]
       IN  /\ boxes' = [boxes EXCEPT ![call.user] =
                  set_read_by_id_upto(@, call.message_read, call.len_message)]
           /\ boxes_two' = [boxes_two EXCEPT ![call.user] =
                  set_read_all(@, call.message_read_two)]
    /\ threads' = [threads EXCEPT ![t].pc = "return"]
    /\ UNCHANGED <<message_id, read, message_id_two,
                   last, prev, returned, returned_two, urgent_sent>>

\* return message_read and
\* return [message.get_details() for message in message_read]
ReturnRead(t) ==
    /\ threads[t].pc = "return"
    /\ threads[t].op = "read_inbox"
    /\ threads' = [threads EXCEPT ![t] = Idle]
    /\ UNCHANGED <<message_id, read, boxes, message_id_two, boxes_two,
                   last, prev, returned, returned_two, urgent_sent>>

ThreadBeginSend ==
    \E t \in Threads, letter \in ThreadLetters, recipient \in Names :
        BeginSend(t, letter.sender, recipient, letter.message_body, letter.urgent)

ThreadIncrementId == \E t \in Threads : IncrementId(t)

ThreadBuildDetails == \E t \in Threads : BuildDetails(t)

ThreadInsertDetails == \E t \in Threads : InsertDetails(t)

ThreadReturnId == \E t \in Threads : ReturnId(t)

ThreadBeginRead ==
    \E t \in Threads, user \in Names, number_of_message \in ThreadLimits :
        BeginRead(t, user, number_of_message)

ThreadSelectUnread == \E t \in Threads : SelectUnread(t)

ThreadMarkRead == \E t \in Threads : MarkRead(t)

ThreadReturnRead == \E t \in Threads : ReturnRead(t)

NextThreads ==
    \/ ThreadBeginSend \/ ThreadIncrementId \/ ThreadBuildDetails
    \/ ThreadInsertDetails \/ ThreadReturnId
    \/ ThreadBeginRead \/ ThreadSelectUnread \/ ThreadMarkRead \/ ThreadReturnRead

SpecThreads == Init /\ [][NextThreads]_vars

(***************************************************************************)
(* Properties.                                                             *)
(***************************************************************************)
Registered == DOMAIN boxes

LastOk == last.outcome = "ok" /\ last.outcome_two = "ok"

\* C1: the ids returned by the successful send_message calls are pairwise
\* distinct and strictly increasing in call order, in both implementations.
C1_ReturnedIdsIncrease ==
    /\ \A i, j \in 1..Len(returned) : i < j => returned[i] < returned[j]
    /\ \A i, j \in 1..Len(returned_two) : i < j => returned_two[i] < returned_two[j]

\* Three sends have succeeded, to two different recipients, the last one urgent
\* and landing in front of an earlier normal one.
C1_Witness ==
    /\ Len(returned) = 3
    /\ Len(returned_two) = 3
    /\ last.op = "send_message" /\ LastOk /\ last.urgent
    /\ Registered = Names
    /\ Len(boxes[last.user]) = 2
    /\ \E other \in Names \ {last.user} : Len(boxes[other]) = 1

\* C2: a fresh post office has counter 0, the n-th successful send_message
\* returns n, and the counter always equals the number of successful sends,
\* so a send that raises KeyError consumes no id.
C2_NthSendReturnsN ==
    /\ last.op = "__init__" => message_id = 0 /\ message_id_two = 0
    /\ \A n \in 1..Len(returned) : returned[n] = n
    /\ \A n \in 1..Len(returned_two) : returned_two[n] = n
    /\ message_id = Len(returned)
    /\ message_id_two = Len(returned_two)

\* A send to an unknown recipient has just failed after two successful sends.
C2_Witness ==
    /\ last.op = "send_message"
    /\ last.outcome = "KeyError" /\ last.outcome_two = "KeyError"
    /\ returned = <<1, 2>>
    /\ returned_two = <<1, 2>>
    /\ message_id = 2

(***************************************************************************)
(* What a returned item stands for.  A dict of turtle_sent.py is compared  *)
(* by its id, body and sender; a detail string of turtle_sent_two.py by    *)
(* the text that precedes its read status.                                 *)
(***************************************************************************)
SameMessage(item, stored) ==
    /\ item.id = stored.id
    /\ item.body = stored.body
    /\ item.sender = stored.sender

Shows(detail, stored) ==
    LET text == "Id: " \o ToString(stored.message_id) \o ", Body: "
                   \o stored.message_body \o ", Sender: " \o stored.message_sender
                   \o ", Read: "
    IN  /\ Cardinality(detail) = 1
        /\ \A str \in detail :
              Len(str) >= Len(text) /\ SubSeq(str, 1, Len(text)) = text

\* The k-th smallest position of a set of positions.
Kth(S, k) == CHOOSE i \in S : Cardinality({j \in S : j < i}) = k - 1

\* How many of n unread messages a read with this limit hands out.
HowMany(n, limit) == IF limit > 0 /\ limit < n THEN limit ELSE n

UnreadAt(box) == {i \in 1..Len(box) : ~box[i].read}

UnreadAtTwo(box) == {i \in 1..Len(box) : ~box[i].message_read}

ReadStep == last'.op = "read_inbox" /\ last'.outcome = "ok" /\ last'.outcome_two = "ok"

\* C3: a successful read_inbox(user, limit) returns the messages that were
\* unread in the user's mailbox when it was called, in mailbox order: the
\* first limit of them when limit > 0, all of them when limit <= 0.
C3_ReadReturnsUnreadInOrder ==
    [][ReadStep =>
        LET limit   == last'.number_of_message
            box     == boxes[last'.user]
            box_two == boxes_two[last'.user]
            U       == UnreadAt(box)
            U_two   == UnreadAtTwo(box_two)
        IN  /\ Len(last'.result) = HowMany(Cardinality(U), limit)
            /\ \A k \in 1..Len(last'.result) :
                  SameMessage(last'.result[k], box[Kth(U, k)])
            /\ Len(last'.result_two) = HowMany(Cardinality(U_two), limit)
            /\ \A k \in 1..Len(last'.result_two) :
                  Shows(last'.result_two[k], box_two[Kth(U_two, k)])
       ]_vars

\* read_inbox(user, 1) on a mailbox of three whose first message was already
\* read: it returned the second message and left the third unread.
C3_Witness ==
    /\ last.op = "read_inbox" /\ LastOk
    /\ last.number_of_message = 1
    /\ Len(boxes[last.user]) = 3
    /\ Len(last.result) = 1 /\ Len(last.result_two) = 1
    /\ last.result[1].id = boxes[last.user][2].id
    /\ Shows(last.result_two[1], boxes_two[last.user][2])
    /\ boxes[last.user][1].read
    /\ ~boxes[last.user][3].read

\* C4: when read_inbox(user, 0) is followed at once by another
\* read_inbox(user, 0), the second returns the empty list, and every message
\* the first returned is marked read in the mailbox.
C4_DestructiveRead ==
    [][(/\ last.op = "read_inbox" /\ LastOk
        /\ last.number_of_message = 0
        /\ ReadStep
        /\ last'.user = last.user
        /\ last'.number_of_message = 0)
       => /\ last'.result = <<>>
          /\ last'.result_two = <<>>
          /\ \A k \in 1..Len(last.result) :
                \E i \in 1..Len(boxes[last.user]) :
                    /\ boxes[last.user][i].id = last.result[k].id
                    /\ boxes[last.user][i].read
          /\ \A k \in 1..Len(last.result_two) :
                \E i \in 1..Len(boxes_two[last.user]) :
                    /\ Shows(last.result_two[k], boxes_two[last.user][i])
                    /\ boxes_two[last.user][i].message_read
      ]_vars

\* The second of two consecutive read_inbox(user, 0) calls returned nothing
\* after the first had returned two messages.
C4_Witness ==
    /\ last.op = "read_inbox" /\ LastOk
    /\ last.number_of_message = 0
    /\ last.result = <<>> /\ last.result_two = <<>>
    /\ prev.op = "read_inbox"
    /\ prev.number_of_message = 0
    /\ Len(prev.result) = 2 /\ Len(prev.result_two) = 2

Ids(items) == [k \in 1..Len(items) |-> items[k].id]

\* First part of C5: a successful read_inbox(user, k) with k > 0 turns to read
\* exactly the messages it returns and changes nothing else in the mailbox.
C5_MarksExactlyReturned ==
    [][(ReadStep /\ last'.number_of_message > 0) =>
        LET box         == boxes[last'.user]
            box_two     == boxes_two[last'.user]
            new_box     == boxes'[last'.user]
            new_box_two == boxes_two'[last'.user]
        IN  /\ Len(new_box) = Len(box)
            /\ \A i \in 1..Len(box) :
                  new_box[i] =
                     IF \E k \in 1..Len(last'.result) : last'.result[k].id = box[i].id
                     THEN [box[i] EXCEPT !.read = TRUE] ELSE box[i]
            /\ Len(new_box_two) = Len(box_two)
            /\ \A i \in 1..Len(box_two) :
                  new_box_two[i] =
                     IF \E k \in 1..Len(last'.result_two) :
                            Shows(last'.result_two[k], box_two[i])
                     THEN [box_two[i] EXCEPT !.message_read = TRUE] ELSE box_two[i]
       ]_vars

\* Second part of C5: when a read with a positive limit is followed at once by
\* another read on the same user, the two results one after the other are the
\* head of the messages that were unread before the first, in mailbox order,
\* and all of them when the second read has limit <= 0.
C5_ConsecutiveChunks ==
    [][(/\ last.op = "read_inbox" /\ LastOk
        /\ last.number_of_message > 0
        /\ ReadStep
        /\ last'.user = last.user) =>
        LET box        == boxes'[last'.user]
            box_two    == boxes_two'[last'.user]
            handed     == Ids(last.result) \o Ids(last'.result)
            handed_two == last.result_two \o last'.result_two
            pool       == {i \in 1..Len(box) :
                              ~box[i].read \/ box[i].id \in Range(handed)}
            pool_two   == {i \in 1..Len(box_two) :
                              \/ ~box_two[i].message_read
                              \/ \E k \in 1..Len(handed_two) :
                                     Shows(handed_two[k], box_two[i])}
        IN  /\ Len(handed) <= Cardinality(pool)
            /\ \A k \in 1..Len(handed) : handed[k] = box[Kth(pool, k)].id
            /\ last'.number_of_message <= 0 => Len(handed) = Cardinality(pool)
            /\ Len(handed_two) <= Cardinality(pool_two)
            /\ \A k \in 1..Len(handed_two) :
                  Shows(handed_two[k], box_two[Kth(pool_two, k)])
            /\ last'.number_of_message <= 0 => Len(handed_two) = Cardinality(pool_two)
       ]_vars

\* C5: a successful read_inbox(user, k) with k > 0 marks read exactly the
\* messages it returns and no others, and successive reads hand out the unread
\* messages in consecutive mailbox-order chunks, never repeating or skipping
\* one: with unread [A, B, C], read_inbox(user, 1) returns A and a following
\* read_inbox(user, 0) returns [B, C].
C5_ReadLimitTruncation == C5_MarksExactlyReturned /\ C5_ConsecutiveChunks

\* Unread [A, B, C]: read_inbox(user, 1) returned A alone, and the
\* read_inbox(user, 0) right after it returned [B, C].
C5_Witness ==
    /\ last.op = "read_inbox" /\ LastOk
    /\ last.number_of_message = 0
    /\ prev.op = "read_inbox"
    /\ prev.number_of_message = 1
    /\ Len(boxes[last.user]) = 3
    /\ Ids(prev.result) = <<boxes[last.user][1].id>>
    /\ Ids(last.result) = <<boxes[last.user][2].id, boxes[last.user][3].id>>
    /\ Len(prev.result_two) = 1
    /\ Len(last.result_two) = 2

\* C6: when two urgent messages sent to the same mailbox, U1 before U2, are
\* both returned by a read_inbox with no limit, U2 comes before U1 in the
\* result.
C6_UrgentOrdering ==
    (last.op = "read_inbox" /\ LastOk /\ last.number_of_message <= 0) =>
        \A s1, s2 \in 1..Len(urgent_sent) :
            s1 < s2 =>
                /\ \A p, q \in 1..Len(last.result) :
                      (/\ last.result[p].id = urgent_sent[s1]
                       /\ last.result[q].id = urgent_sent[s2]) => q < p
                /\ \A p, q \in 1..Len(last.result_two) :
                      \A m1, m2 \in 1..Len(boxes_two[last.user]) :
                          (/\ boxes_two[last.user][m1].message_id = urgent_sent[s1]
                           /\ boxes_two[last.user][m2].message_id = urgent_sent[s2]
                           /\ Shows(last.result_two[p], boxes_two[last.user][m1])
                           /\ Shows(last.result_two[q], boxes_two[last.user][m2]))
                          => q < p

\* A read with no limit returned three messages: the second urgent one, then
\* the first urgent one, then a normal one.
C6_Witness ==
    /\ last.op = "read_inbox" /\ LastOk
    /\ last.number_of_message = 0
    /\ Len(urgent_sent) = 2
    /\ Len(last.result) = 3 /\ Len(last.result_two) = 3
    /\ last.result[1].id = urgent_sent[2]
    /\ last.result[2].id = urgent_sent[1]
    /\ urgent_sent[1] < last.result[3].id

\* C7: search_inbox changes nothing of either post office (counter, mailbox
\* contents and order, read flags), and a search_inbox that follows at once
\* an identical one returns what that one returned.
C7_SearchChangesNothing ==
    [][last'.op = "search_inbox" =>
        /\ UNCHANGED <<message_id, read, boxes, message_id_two, boxes_two>>
        /\ (/\ last.op = "search_inbox" /\ LastOk
            /\ last'.outcome = "ok" /\ last'.outcome_two = "ok"
            /\ last'.user = last.user
            /\ last'.part_message = last.part_message)
           => /\ last'.result = last.result
              /\ last'.result_two = last.result_two
      ]_vars

\* The second of two identical searches found the same two messages, one of
\* them still unread.
C7_Witness ==
    /\ last.op = "search_inbox" /\ LastOk
    /\ prev.op = "search_inbox"
    /\ Len(last.result) = 2
    /\ last.result = prev.result
    /\ last.result_two = prev.result_two
    /\ \E k \in 1..2 : ~last.result[k].read
    /\ \E k \in 1..2 : last.result[k].read

\* part occurs in body: body is some text, then part, then some text.
IsSubstring(part, body) ==
    \E i, j \in 0..Len(body) :
        i <= j /\ body = SubSeq(body, 1, i) \o part \o SubSeq(body, j + 1, Len(body))

\* C8: a successful search_inbox(user, substring) returns, in mailbox order,
\* exactly the messages of the mailbox whose body contains substring, read or
\* not; with the empty substring that is the whole mailbox.
C8_SearchReturnsMatches ==
    [][(last'.op = "search_inbox" /\ last'.outcome = "ok" /\ last'.outcome_two = "ok") =>
        LET part    == last'.part_message
            box     == boxes[last'.user]
            box_two == boxes_two[last'.user]
            M       == {i \in 1..Len(box) : IsSubstring(part, box[i].body)}
            M_two   == {i \in 1..Len(box_two) : IsSubstring(part, box_two[i].message_body)}
        IN  /\ Len(last'.result) = Cardinality(M)
            /\ \A k \in 1..Len(last'.result) : last'.result[k] = box[Kth(M, k)]
            /\ Len(last'.result_two) = Cardinality(M_two)
            /\ \A k \in 1..Len(last'.result_two) :
                  Shows(last'.result_two[k], box_two[Kth(M_two, k)])
            /\ part = "" => /\ Len(last'.result) = Len(box)
                            /\ Len(last'.result_two) = Len(box_two)
      ]_vars

\* A search for "b" in a mailbox of three returned its first and third
\* messages, one read and one unread, and skipped the second.
C8_Witness ==
    /\ last.op = "search_inbox" /\ LastOk
    /\ last.part_message = "b"
    /\ Len(boxes[last.user]) = 3
    /\ Ids(last.result) = <<boxes[last.user][1].id, boxes[last.user][3].id>>
    /\ Len(last.result_two) = 2
    /\ last.result[1].read # last.result[2].read

\* C9: send_message to an unregistered recipient and read_inbox or
\* search_inbox on an unregistered user raise KeyError (and only they do), and
\* the failed call leaves the counter, every mailbox and every read flag as
\* they were.
C9_UnknownUserChangesNothing ==
    [][last'.op \in {"send_message", "read_inbox", "search_inbox"} =>
        /\ last'.outcome = "KeyError" <=> last'.user \notin DOMAIN boxes
        /\ last'.outcome_two = "KeyError" <=> last'.user \notin DOMAIN boxes_two
        /\ last'.outcome = "KeyError" => UNCHANGED <<message_id, read, boxes, returned>>
        /\ last'.outcome_two = "KeyError" =>
              UNCHANGED <<message_id_two, boxes_two, returned_two>>
      ]_vars

\* read_inbox on an unregistered user has just failed while a mailbox holds
\* an unread message.
C9_Witness ==
    /\ last.op = "read_inbox"
    /\ last.user \notin DOMAIN boxes
    /\ last.outcome = "KeyError" /\ last.outcome_two = "KeyError"
    /\ message_id = 2
    /\ \E user \in DOMAIN boxes : \E i \in 1..Len(boxes[user]) : ~boxes[user][i].read

HasDuplicate(names) == \E i, j \in 1..Len(names) : i # j /\ names[i] = names[j]

ReadText(stored) ==
    "Id: " \o ToString(stored.message_id) \o ", Body: " \o stored.message_body
        \o ", Sender: " \o stored.message_sender \o ", Read: True"

\* C11: every item a successful read_inbox returns shows the message as read,
\* with the id, body and sender of a message of the mailbox; none shows it
\* unread.
C11_DetailsShowRead ==
    (last.op = "read_inbox" /\ LastOk) =>
        /\ \A k \in 1..Len(last.result) :
              /\ last.result[k].read = TRUE
              /\ \E i \in 1..Len(boxes[last.user]) :
                    /\ SameMessage(last.result[k], boxes[last.user][i])
                    /\ boxes[last.user][i].read
        /\ \A k \in 1..Len(last.result_two) :
              \E i \in 1..Len(boxes_two[last.user]) :
                  /\ last.result_two[k] = {ReadText(boxes_two[last.user][i])}
                  /\ boxes_two[last.user][i].message_read

\* A read returned two messages, the first of them message 1 from "a" saying
\* "ab", both shown as read.
C11_Witness ==
    /\ last.op = "read_inbox" /\ LastOk
    /\ Len(last.result) = 2 /\ Len(last.result_two) = 2
    /\ last.result[1] = [id |-> 1, body |-> "ab", sender |-> "a", read |-> TRUE]
    /\ last.result[2].read
    /\ last.result_two[1] = {"Id: 1, Body: ab, Sender: a, Read: True"}

\* The ids of the messages of a mailbox of turtle_sent.py / turtle_sent_two.py.
BoxIds(box) == {box[i].id : i \in 1..Len(box)}

BoxIdsTwo(box) == {box[i].message_id : i \in 1..Len(box)}

\* C12: a message is unread when it is sent, a read message stays read, and a
\* flag turns to read only in a read_inbox call on the user who owns the
\* mailbox that returns this message; send_message and search_inbox turn none.
C12_ReadFlagOneWay ==
    [][/\ \A user \in DOMAIN boxes : \A i \in 1..Len(boxes[user]) :
            LET old == boxes[user][i]
            IN  \E j \in 1..Len(boxes'[user]) :
                    LET new == boxes'[user][j]
                    IN  /\ new.id = old.id
                        /\ old.read => new.read
                        /\ (~old.read /\ new.read) =>
                              /\ last'.op = "read_inbox"
                              /\ last'.user = user
                              /\ old.id \in Range(Ids(last'.result))
       /\ \A user \in DOMAIN boxes' : \A j \in 1..Len(boxes'[user]) :
            boxes'[user][j].id \notin BoxIds(boxes[user]) => ~boxes'[user][j].read
       /\ \A user \in DOMAIN boxes_two : \A i \in 1..Len(boxes_two[user]) :
            LET old == boxes_two[user][i]
            IN  \E j \in 1..Len(boxes_two'[user]) :
                    LET new == boxes_two'[user][j]
                    IN  /\ new.message_id = old.message_id
                        /\ old.message_read => new.message_read
                        /\ (~old.message_read /\ new.message_read) =>
                              /\ last'.op = "read_inbox"
                              /\ last'.user = user
                              /\ \E k \in 1..Len(last'.result_two) :
                                    Shows(last'.result_two[k], old)
       /\ \A user \in DOMAIN boxes_two' : \A j \in 1..Len(boxes_two'[user]) :
            boxes_two'[user][j].message_id \notin BoxIdsTwo(boxes_two[user])
               => ~boxes_two'[user][j].message_read
      ]_vars

\* A message was sent to a mailbox that holds a read message: the read one is
\* still read and the new one is unread, and the other mailbox holds an
\* unread message no read has touched.
C12_Witness ==
    /\ last.op = "send_message" /\ LastOk
    /\ Registered = Names
    /\ Len(boxes[last.user]) = 2
    /\ \E i, j \in 1..2 :
          /\ boxes[last.user][i].read /\ boxes_two[last.user][i].message_read
          /\ boxes[last.user][j].id = last.result /\ ~boxes[last.user][j].read
          /\ ~boxes_two[last.user][j].message_read
    /\ \E other \in Names \ {last.user} :
          Len(boxes[other]) = 1 /\ ~boxes[other][1].read

\* The messages stored in all mailboxes, each with its mailbox and position.
Stored == UNION {{<<user, i>> : i \in 1..Len(boxes[user])} : user \in DOMAIN boxes}

StoredTwo == UNION {{<<user, i>> : i \in 1..Len(boxes_two[user])} : user \in DOMAIN boxes_two}

\* First part of C13: the ids stored in all mailboxes together are pairwise
\* distinct and lie between 1 and the counter.
C13_IdsDistinct ==
    /\ \A p, q \in Stored :
          p # q => boxes[p[1]][p[2]].id # boxes[q[1]][q[2]].id
    /\ \A p \in Stored :
          boxes[p[1]][p[2]].id >= 1 /\ boxes[p[1]][p[2]].id <= message_id
    /\ \A p, q \in StoredTwo :
          p # q => boxes_two[p[1]][p[2]].message_id # boxes_two[q[1]][q[2]].message_id
    /\ \A p \in StoredTwo :
          /\ boxes_two[p[1]][p[2]].message_id >= 1
          /\ boxes_two[p[1]][p[2]].message_id <= message_id_two

\* Second part of C13: a stored message keeps its id: after every step the
\* mailbox still holds a message with that id, and with the same body and
\* sender.
C13_IdsKept ==
    [][/\ \A p \in Stored :
            \E j \in 1..Len(boxes'[p[1]]) :
                SameMessage(boxes'[p[1]][j], boxes[p[1]][p[2]])
       /\ \A p \in StoredTwo :
            \E j \in 1..Len(boxes_two'[p[1]]) :
                LET old == boxes_two[p[1]][p[2]]
                    new == boxes_two'[p[1]][j]
                IN  /\ new.message_id = old.message_id
                    /\ new.message_body = old.message_body
                    /\ new.message_sender = old.message_sender
      ]_vars

\* C13: in every reachable state the ids of the messages stored in all
\* mailboxes together are pairwise distinct, each is between 1 and the
\* counter, and a stored message's id never changes.
C13_IdsUniqueAndStable == []C13_IdsDistinct /\ C13_IdsKept

\* Three messages are stored in two mailboxes, one of them read, with the ids
\* 1, 2 and 3.
C13_Witness ==
    /\ Registered = Names
    /\ message_id = 3 /\ message_id_two = 3
    /\ \A user \in Names : boxes[user] # <<>>
    /\ {boxes[p[1]][p[2]].id : p \in Stored} = {1, 2, 3}
    /\ {boxes_two[p[1]][p[2]].message_id : p \in StoredTwo} = {1, 2, 3}
    /\ \E p \in Stored : boxes[p[1]][p[2]].read

\* The places in urgent_sent of the urgent messages that went to a mailbox
\* holding these ids.
UrgentOf(ids) == {s \in 1..Len(urgent_sent) : urgent_sent[s] \in ids}

\* C14: in every mailbox that received an urgent message the urgent messages
\* sit at the front in reverse order of sending, so the first message is the
\* urgent message sent last to that mailbox, whatever normal sends, reads and
\* searches came since.
C14_UrgentAtFront ==
    /\ \A user \in DOMAIN boxes :
          LET U == UrgentOf(BoxIds(boxes[user]))
              n == Cardinality(U)
          IN  /\ n <= Len(boxes[user])
              /\ \A k \in 1..n : boxes[user][k].id = urgent_sent[Kth(U, n - k + 1)]
    /\ \A user \in DOMAIN boxes_two :
          LET U == UrgentOf(BoxIdsTwo(boxes_two[user]))
              n == Cardinality(U)
          IN  /\ n <= Len(boxes_two[user])
              /\ \A k \in 1..n :
                    boxes_two[user][k].message_id = urgent_sent[Kth(U, n - k + 1)]

\* Two urgent messages and then a normal one went to a mailbox, a read took
\* the first of them and a search followed: the later urgent message is
\* first, the earlier one second, the normal one last.
C14_Witness ==
    /\ last.op = "search_inbox" /\ LastOk
    /\ urgent_sent = <<1, 2>>
    /\ Ids(boxes[last.user]) = <<2, 1, 3>>
    /\ boxes_two[last.user][1].message_id = 2
    /\ boxes[last.user][1].read
    /\ ~boxes[last.user][2].read

\* C15: send_message to a registered recipient succeeds whoever the sender
\* is, and adds exactly one message to the recipient's mailbox: in front when
\* urgent, at the end otherwise, with the newly assigned id, the given body
\* and sender and read = False.  The messages already there keep their order
\* and their fields, and the id returned is the id stored in the new message.
C15_SendAddsOneMessage ==
    [][(last'.op = "send_message" /\ last'.user \in DOMAIN boxes) =>
        /\ last'.outcome = "ok" /\ last'.outcome_two = "ok"
        /\ LET box     == boxes[last'.user]
               new     == boxes'[last'.user]
               box_two == boxes_two[last'.user]
               new_two == boxes_two'[last'.user]
               at      == IF last'.urgent THEN 1 ELSE Len(box) + 1
               shift   == IF last'.urgent THEN 1 ELSE 0
           IN  /\ Len(new) = Len(box) + 1
               /\ new[at] = [id |-> message_id + 1, body |-> last'.message_body,
                              sender |-> last'.sender, read |-> FALSE]
               /\ last'.result = new[at].id
               /\ \A i \in 1..Len(box) : new[i + shift] = box[i]
               /\ Len(new_two) = Len(box_two) + 1
               /\ new_two[at] = [message_id     |-> message_id_two + 1,
                                  message_body   |-> last'.message_body,
                                  message_sender |-> last'.sender,
                                  message_read   |-> FALSE]
               /\ last'.result_two = new_two[at].message_id
               /\ \A i \in 1..Len(box_two) : new_two[i + shift] = box_two[i]
      ]_vars

\* "z", who has no mailbox, sent a normal message: it is the third and last
\* of the mailbox, unread, behind a message that was read before.
C15_Witness ==
    /\ last.op = "send_message" /\ LastOk
    /\ last.sender \notin Registered
    /\ ~last.urgent
    /\ Len(boxes[last.user]) = 3
    /\ boxes[last.user][3] = [id |-> 3, body |-> last.message_body,
                               sender |-> last.sender, read |-> FALSE]
    /\ boxes_two[last.user][3].message_id = last.result_two
    /\ boxes[last.user][1].read

\* The thread takes the step that returns from this call.
Returns(t, op) ==
    /\ threads[t].pc = "return"
    /\ threads[t].op = op
    /\ threads'[t].pc = "idle"

Distinct(seq) == \A i, j \in 1..Len(seq) : i # j => seq[i] # seq[j]

\* C16: when send_message calls of several threads interleave, the ids they
\* return are pairwise distinct, the stored messages have pairwise distinct
\* ids, and each call returns the id of the message it inserted.
C16_ConcurrentSendsAtomic ==
    /\ [](/\ Distinct(returned)
          /\ Distinct(returned_two)
          /\ \A p, q \in Stored :
                p # q => boxes[p[1]][p[2]].id # boxes[q[1]][q[2]].id
          /\ \A p, q \in StoredTwo :
                p # q => boxes_two[p[1]][p[2]].message_id
                            # boxes_two[q[1]][q[2]].message_id)
    /\ [][\A t \in Threads :
            Returns(t, "send_message") =>
                /\ returned' = Append(returned, threads[t].details.id)
                /\ returned_two' = Append(returned_two, threads[t].details_two.message_id)
         ]_vars

\* Two threads are inside send_message and both have incremented the counter
\* before either has built its message.
C16_Witness ==
    /\ \A t \in Threads : threads[t].pc = "build" /\ threads[t].op = "send_message"
    /\ message_id = 2 /\ message_id_two = 2

\* C17, its first consequence: when read_inbox on a user interleaves with a
\* send_message to that user, every message the read_inbox returns is marked
\* read when it returns, as it is when the two calls run one after the other.
C17_ConcurrentReadMarksAll ==
    [][\A t \in Threads :
          Returns(t, "read_inbox") =>
              LET call == threads[t]
              IN  /\ \A k \in 1..Len(call.message_read) :
                        boxes[call.user][call.message_read[k]].read
                  /\ \A k \in 1..Len(call.message_read_two) :
                        boxes_two[call.user][call.message_read_two[k]].message_read
      ]_vars

\* A thread is about to mark the messages it selected in a mailbox that has
\* grown since its read_inbox began: the other thread has put an urgent
\* message in front and has not returned yet.
C17_Witness ==
    \E t, other \in Threads :
        /\ threads[t].pc = "mark"
        /\ threads[t].len_message < Len(boxes[threads[t].user])
        /\ Len(threads[t].message_read) = 2
        /\ threads[other].pc = "return"
        /\ threads[other].op = "send_message"
        /\ threads[other].user = threads[t].user
        /\ threads[other].urgent

\* The Message object that stands for a dict of turtle_sent.py.
AsMessage(item) ==
    [message_id     |-> item.id,
     message_body   |-> item.body,
     message_sender |-> item.sender,
     message_read   |-> item.read]

\* The detail of turtle_sent_two.py that describes a dict of turtle_sent.py.
AsDetail(item) ==
    {"Id: " \o ToString(item.id) \o ", Body: " \o item.body
        \o ", Sender: " \o item.sender
        \o ", Read: " \o (IF item.read THEN "True" ELSE "False")}

\* C18: built from the same usernames and given the same calls, the two
\* implementations return the same ids, select the same messages in the same
\* order in every read and search, fail on the same calls, and hold the same
\* mailboxes: same order, ids, bodies, senders and read flags.
C18_ImplementationsAgree ==
    /\ message_id_two = message_id
    /\ returned_two = returned
    /\ DOMAIN boxes_two = DOMAIN boxes
    /\ \A user \in DOMAIN boxes :
          /\ Len(boxes_two[user]) = Len(boxes[user])
          /\ \A i \in 1..Len(boxes[user]) : boxes_two[user][i] = AsMessage(boxes[user][i])
    /\ last.outcome_two = last.outcome
    /\ (last.op = "send_message" /\ LastOk) => last.result_two = last.result
    /\ (last.op \in {"read_inbox", "search_inbox"} /\ LastOk) =>
          /\ Len(last.result_two) = Len(last.result)
          /\ \A k \in 1..Len(last.result) : last.result_two[k] = AsDetail(last.result[k])

\* Three messages were sent and a search for "b" has just found two of the
\* three messages of a mailbox, a read one and an unread one.
C18_Witness ==
    /\ last.op = "search_inbox" /\ LastOk
    /\ last.part_message = "b"
    /\ message_id = 3
    /\ Len(boxes[last.user]) = 3
    /\ Len(last.result) = 2 /\ Len(last.result_two) = 2
    /\ last.result[1].read # last.result[2].read

\* The ids of a mailbox of turtle_sent_two.py, front to back.
IdsTwo(box) == [k \in 1..Len(box) |-> box[k].message_id]

\* C19: the mailbox keys are the usernames given at construction and never
\* change; a mailbox is empty at construction, grows by one with every
\* successful send_message to its user and never otherwise, so its length is
\* the number of successful sends to that recipient; read_inbox and
\* search_inbox leave the length and the order of every mailbox as they were.
C19_NothingRemoved ==
    /\ [](last.op = "__init__" =>
            /\ DOMAIN boxes = Range(last.usernames)
            /\ DOMAIN boxes_two = Range(last.usernames)
            /\ \A user \in Range(last.usernames) :
                  Len(boxes[user]) = 0 /\ Len(boxes_two[user]) = 0)
    /\ [][/\ DOMAIN boxes' = DOMAIN boxes
           /\ DOMAIN boxes_two' = DOMAIN boxes_two
           /\ \A user \in DOMAIN boxes :
                 LET sent == IF /\ last'.op = "send_message"
                                /\ last'.outcome = "ok" /\ last'.outcome_two = "ok"
                                /\ last'.user = user
                             THEN 1 ELSE 0
                 IN  /\ Len(boxes'[user]) = Len(boxes[user]) + sent
                     /\ Len(boxes_two'[user]) = Len(boxes_two[user]) + sent
                     /\ sent = 0 =>
                           /\ Ids(boxes'[user]) = Ids(boxes[user])
                           /\ IdsTwo(boxes_two'[user]) = IdsTwo(boxes_two[user])
         ]_vars

\* A read has just handed out both messages of a mailbox: they are still
\* there, and so is the message of the other mailbox.
C19_Witness ==
    /\ last.op = "read_inbox" /\ LastOk
    /\ Registered = Names
    /\ Len(last.result) = 2
    /\ Len(boxes[last.user]) = 2 /\ Len(boxes_two[last.user]) = 2
    /\ \E other \in Names \ {last.user} :
          Len(boxes[other]) = 1 /\ Len(boxes_two[other]) = 1

\* C20: a successful send_message to a recipient changes that recipient's
\* mailbox and the counter and nothing else; a successful read_inbox on a user
\* changes read flags in that user's mailbox and nothing else: not the
\* counter, and not the contents, order or read flags of another mailbox.
C20_OtherMailboxesUntouched ==
    [][(/\ last'.op \in {"send_message", "read_inbox"}
        /\ last'.outcome = "ok" /\ last'.outcome_two = "ok") =>
        /\ \A other \in DOMAIN boxes \ {last'.user} : boxes'[other] = boxes[other]
        /\ \A other \in DOMAIN boxes_two \ {last'.user} :
              boxes_two'[other] = boxes_two[other]
        /\ read' = read
        /\ last'.op = "read_inbox" =>
              /\ message_id' = message_id
              /\ message_id_two' = message_id_two
              /\ Len(boxes'[last'.user]) = Len(boxes[last'.user])
              /\ \A i \in 1..Len(boxes[last'.user]) :
                    [boxes'[last'.user][i] EXCEPT !.read = boxes[last'.user][i].read]
                       = boxes[last'.user][i]
              /\ Len(boxes_two'[last'.user]) = Len(boxes_two[last'.user])
              /\ \A i \in 1..Len(boxes_two[last'.user]) :
                    [boxes_two'[last'.user][i] EXCEPT
                        !.message_read = boxes_two[last'.user][i].message_read]
                       = boxes_two[last'.user][i]
      ]_vars

\* A read has just marked both messages of one mailbox while the message of
\* the other mailbox is still unread.
C20_Witness ==
    /\ last.op = "read_inbox" /\ LastOk
    /\ Registered = Names
    /\ Len(last.result) = 2
    /\ \A i \in 1..Len(boxes[last.user]) : boxes[last.user][i].read
    /\ \E other \in Names \ {last.user} :
          /\ Len(boxes[other]) = 1
          /\ ~boxes[other][1].read
          /\ ~boxes_two[other][1].message_read

====
